---- MODULE Spec2Model ----
(***************************************************************************)
(* Jira Timesheet Logger (log-timesheet.py).                               *)
(*                                                                         *)
(* A Python str is modelled as a sequence of one-character strings, so     *)
(* that strip, upper, replace, rstrip, the regular expressions, float()    *)
(* and strptime() are computed character by character as the interpreter   *)
(* computes them.  The alphabet is ASCII.  A field that csv.DictReader     *)
(* fills with None (a data row shorter than the header) is NoneValue.      *)
(***************************************************************************)
EXTENDS Integers, Sequences, FiniteSets, TLC

(***************************************************************************)
(* Characters                                                              *)
(***************************************************************************)
Digits == <<"0", "1", "2", "3", "4", "5", "6", "7", "8", "9">>

LowerChars == <<"a", "b", "c", "d", "e", "f", "g", "h", "i", "j", "k", "l", "m",
                "n", "o", "p", "q", "r", "s", "t", "u", "v", "w", "x", "y", "z">>

UpperChars == <<"A", "B", "C", "D", "E", "F", "G", "H", "I", "J", "K", "L", "M",
                "N", "O", "P", "Q", "R", "S", "T", "U", "V", "W", "X", "Y", "Z">>

Range(f) == {f[x] : x \in DOMAIN f}

IsDigit(c) == c \in Range(Digits)
IsLower(c) == c \in Range(LowerChars)
IsUpper(c) == c \in Range(UpperChars)
IsAlpha(c) == IsLower(c) \/ IsUpper(c)

\* the control characters 0x0b and 0x1c..0x1f, which have no escape
VT == ""
FS == ""
GS == ""
RS == ""
US == ""

\* str.isspace() over ASCII: what str.strip() removes
Spaces == {" ", "\t", "\n", "\r", "\f", VT, FS, GS, RS, US}

\* Py_ISSPACE: what float() skips around its literal
FloatSpaces == {" ", "\t", "\n", "\r", "\f", VT}

DigitVal(c) == (CHOOSE k \in 1..10 : Digits[k] = c) - 1

UpperChar(c) == IF IsLower(c) THEN UpperChars[CHOOSE k \in 1..26 : LowerChars[k] = c] ELSE c
LowerChar(c) == IF IsUpper(c) THEN LowerChars[CHOOSE k \in 1..26 : UpperChars[k] = c] ELSE c

\* str.upper() / str.lower()
Upper(s) == [k \in 1..Len(s) |-> UpperChar(s[k])]
Lower(s) == [k \in 1..Len(s) |-> LowerChar(s[k])]

\* s[a..b] (1-based, inclusive), empty when a > b
Sub(s, a, b) == IF a > b THEN <<>> ELSE SubSeq(s, a, b)

\* every character of s[a..b] is a digit / a letter
AllDigits(s, a, b) == \A j \in a..b : IsDigit(s[j])
AllAlpha(s, a, b) == \A j \in a..b : IsAlpha(s[j])

\* s without its leading / trailing characters that are in cs
LTrim(s, cs) ==
    LET keep == {k \in 1..Len(s) : s[k] \notin cs}
    IN  IF keep = {} THEN <<>>
        ELSE SubSeq(s, CHOOSE k \in keep : \A j \in keep : k <= j, Len(s))

RTrim(s, cs) ==
    LET keep == {k \in 1..Len(s) : s[k] \notin cs}
    IN  IF keep = {} THEN <<>>
        ELSE SubSeq(s, 1, CHOOSE k \in keep : \A j \in keep : k >= j)

\* str.strip()
Strip(s) == RTrim(LTrim(s, Spaces), Spaces)

\* the whitespace float() skips before and after the literal
StripFloat(s) == RTrim(LTrim(s, FloatSpaces), FloatSpaces)

\* str.rstrip('/')
RStripSlash(s) == RTrim(s, {"/"})

\* str.replace(old, ''): every occurrence of old is removed.  Neither scheme
\* overlaps itself, so the occurrences found left to right are all of them.
Remove(s, old) ==
    LET n == Len(old)
        Match(p) == p >= 1 /\ p + n - 1 <= Len(s) /\ SubSeq(s, p, p + n - 1) = old
        Kept(k) == ~\E p \in (k - n + 1)..k : Match(p)
        kept == SelectSeq([k \in 1..Len(s) |-> k], Kept)
    IN  [i \in 1..Len(kept) |-> s[kept[i]]]

\* a prefix test
StartsWith(s, p) == Len(s) >= Len(p) /\ SubSeq(s, 1, Len(p)) = p

\* The positions where the regular-expression anchor $ matches: the end of
\* the string, and just before a final newline.
DollarEnds(s) ==
    {Len(s)} \cup (IF s # <<>> /\ s[Len(s)] = "\n" THEN {Len(s) - 1} ELSE {})

Https == <<"h", "t", "t", "p", "s", ":", "/", "/">>
Http == <<"h", "t", "t", "p", ":", "/", "/">>

(***************************************************************************)
(* Validators                                                              *)
(***************************************************************************)
IsDomainChar(c) == IsAlpha(c) \/ IsDigit(c) \/ c \in {".", "-"}

\* re.match(r'^[a-zA-Z0-9.-]+\.[a-zA-Z]{2,}$', domain): k is the literal dot
DomainPattern(s) ==
    \E e \in DollarEnds(s) : \E k \in 2..(e - 2) :
        /\ \A j \in 1..(k - 1) : IsDomainChar(s[j])
        /\ s[k] = "."
        /\ AllAlpha(s, k + 1, e)

IsEmailChar(c) == IsAlpha(c) \/ IsDigit(c) \/ c \in {".", "_", "%", "+", "-"}

\* re.match(r'^[a-zA-Z0-9._%+-]+@[a-zA-Z0-9.-]+\.[a-zA-Z]{2,}$', email): a is
\* the "@"; what follows it is matched as the domain pattern is
validate_email(email) ==
    \E a \in 2..Len(email) :
        /\ \A j \in 1..(a - 1) : IsEmailChar(email[j])
        /\ email[a] = "@"
        /\ DomainPattern(Sub(email, a + 1, Len(email)))

\* validate_domain: the normalized domain, or ValueError
validate_domain(domain) ==
    LET d1 == Remove(Remove(domain, Https), Http)
        d2 == RStripSlash(d1)
    IN  IF DomainPattern(d2) THEN [ok |-> TRUE, value |-> d2]
        ELSE [ok |-> FALSE, value |-> <<>>]

IsTicketChar(c) == IsUpper(c) \/ IsDigit(c)

\* re.match(r'^[A-Z][A-Z0-9]*-[0-9]+$', ticket.upper()): k is the hyphen
validate_ticket_format(ticket) ==
    LET u == Upper(ticket)
    IN  \E e \in DollarEnds(u) : \E k \in 2..(e - 1) :
            /\ IsUpper(u[1])
            /\ \A j \in 2..(k - 1) : IsTicketChar(u[j])
            /\ u[k] = "-"
            /\ AllDigits(u, k + 1, e)

(***************************************************************************)
(* float(str)                                                              *)
(*                                                                         *)
(* A float is [kind, neg, sig, lead]: "nan", "inf" (signed by neg), or the *)
(* finite value (-1)^neg * 0.d1 d2 ... * 10^(lead + 1), where sig is the   *)
(* digit string d1 d2 ... of the literal without its leading and trailing  *)
(* zeros (empty for zero).  The program only compares the double with 0    *)
(* and 24; these comparisons are made on the digit string, against the     *)
(* exact decimal values at which the correctly rounded double changes:     *)
(* the literal overflows to inf from 2^1024 - 2^970, rounds to zero up to  *)
(* 2^-1075, and rounds to 24.0 up to 24 + 2^-49.                           *)
(***************************************************************************)
NoFloat == [kind |-> "err", neg |-> FALSE, sig |-> <<>>, lead |-> 0]

\* digit (["_"] digit)* : Python's underscore rule for numeric literals
DigitPart(s) ==
    /\ s # <<>>
    /\ \A k \in 1..Len(s) : IsDigit(s[k]) \/ s[k] = "_"
    /\ IsDigit(s[1]) /\ IsDigit(s[Len(s)])
    /\ \A k \in 1..(Len(s) - 1) : ~(s[k] = "_" /\ s[k + 1] = "_")

OnlyDigits(s) == SelectSeq(s, IsDigit)

\* a digit string without its leading / trailing zeros
StripZeros(s) == LTrim(s, {"0"})
RStripZeros(s) == RTrim(s, {"0"})

RECURSIVE DigitsValue(_)
DigitsValue(s) ==
    IF s = <<>> THEN 0 ELSE 10 * DigitsValue(Sub(s, 1, Len(s) - 1)) + DigitVal(s[Len(s)])

\* the k-th digit of the decimal fraction 0.a
DigitAt(a, k) == IF k <= Len(a) THEN a[k] ELSE "0"

\* 0.a > 0.b, for digit strings a and b read as decimal fractions
DigitsGreater(a, b) ==
    \E k \in 1..Len(a) :
        /\ \A j \in 1..(k - 1) : DigitAt(a, j) = DigitAt(b, j)
        /\ DigitVal(DigitAt(a, k)) > DigitVal(DigitAt(b, k))

\* index of the first character of s in set cs, 0 when there is none
FirstIn(s, cs) ==
    IF \E k \in 1..Len(s) : s[k] \in cs
    THEN CHOOSE k \in 1..Len(s) : s[k] \in cs /\ \A j \in 1..(k - 1) : s[j] \notin cs
    ELSE 0

HasSign(s) == s # <<>> /\ s[1] \in {"+", "-"}
Unsigned(s) == IF HasSign(s) THEN Tail(s) ELSE s

Inf == <<"i", "n", "f">>
Infinity == <<"i", "n", "f", "i", "n", "i", "t", "y">>
Nan == <<"n", "a", "n">>

\* the digits of 2^1024 - 2^970 = 1.797...e308, halfway between the largest
\* double and 2^1024: from here on a literal rounds to inf
OverflowDigits ==
    <<"1", "7", "9", "7", "6", "9", "3", "1", "3", "4", "8", "6", "2", "3", "1", "5",
      "8", "0", "7", "9", "3", "7", "2", "8", "9", "7", "1", "4", "0", "5", "3", "0",
      "3", "4", "1", "5", "0", "7", "9", "9", "3", "4", "1", "3", "2", "7", "1", "0",
      "0", "3", "7", "8", "2", "6", "9", "3", "6", "1", "7", "3", "7", "7", "8", "9",
      "8", "0", "4", "4", "4", "9", "6", "8", "2", "9", "2", "7", "6", "4", "7", "5",
      "0", "9", "4", "6", "6", "4", "9", "0", "1", "7", "9", "7", "7", "5", "8", "7",
      "2", "0", "7", "0", "9", "6", "3", "3", "0", "2", "8", "6", "4", "1", "6", "6",
      "9", "2", "8", "8", "7", "9", "1", "0", "9", "4", "6", "5", "5", "5", "5", "4",
      "7", "8", "5", "1", "9", "4", "0", "4", "0", "2", "6", "3", "0", "6", "5", "7",
      "4", "8", "8", "6", "7", "1", "5", "0", "5", "8", "2", "0", "6", "8", "1", "9",
      "0", "8", "9", "0", "2", "0", "0", "0", "7", "0", "8", "3", "8", "3", "6", "7",
      "6", "2", "7", "3", "8", "5", "4", "8", "4", "5", "8", "1", "7", "7", "1", "1",
      "5", "3", "1", "7", "6", "4", "4", "7", "5", "7", "3", "0", "2", "7", "0", "0",
      "6", "9", "8", "5", "5", "5", "7", "1", "3", "6", "6", "9", "5", "9", "6", "2",
      "2", "8", "4", "2", "9", "1", "4", "8", "1", "9", "8", "6", "0", "8", "3", "4",
      "9", "3", "6", "4", "7", "5", "2", "9", "2", "7", "1", "9", "0", "7", "4", "1",
      "6", "8", "4", "4", "4", "3", "6", "5", "5", "1", "0", "7", "0", "4", "3", "4",
      "2", "7", "1", "1", "5", "5", "9", "6", "9", "9", "5", "0", "8", "0", "9", "3",
      "0", "4", "2", "8", "8", "0", "1", "7", "7", "9", "0", "4", "1", "7", "4", "4",
      "9", "7", "7", "9", "2">>

\* the digits of 2^-1075 = 2.470...e-324, half the smallest double: up to
\* here a literal rounds to zero
UnderflowDigits ==
    <<"2", "4", "7", "0", "3", "2", "8", "2", "2", "9", "2", "0", "6", "2", "3", "2",
      "7", "2", "0", "8", "8", "2", "8", "4", "3", "9", "6", "4", "3", "4", "1", "1",
      "0", "6", "8", "6", "1", "8", "2", "5", "2", "9", "9", "0", "1", "3", "0", "7",
      "1", "6", "2", "3", "8", "2", "2", "1", "2", "7", "9", "2", "8", "4", "1", "2",
      "5", "0", "3", "3", "7", "7", "5", "3", "6", "3", "5", "1", "0", "4", "3", "7",
      "5", "9", "3", "2", "6", "4", "9", "9", "1", "8", "1", "8", "0", "8", "1", "7",
      "9", "9", "6", "1", "8", "9", "8", "9", "8", "2", "8", "2", "3", "4", "7", "7",
      "2", "2", "8", "5", "8", "8", "6", "5", "4", "6", "3", "3", "2", "8", "3", "5",
      "5", "1", "7", "7", "9", "6", "9", "8", "9", "8", "1", "9", "9", "3", "8", "7",
      "3", "9", "8", "0", "0", "5", "3", "9", "0", "9", "3", "9", "0", "6", "3", "1",
      "5", "0", "3", "5", "6", "5", "9", "5", "1", "5", "5", "7", "0", "2", "2", "6",
      "3", "9", "2", "2", "9", "0", "8", "5", "8", "3", "9", "2", "4", "4", "9", "1",
      "0", "5", "1", "8", "4", "4", "3", "5", "9", "3", "1", "8", "0", "2", "8", "4",
      "9", "9", "3", "6", "5", "3", "6", "1", "5", "2", "5", "0", "0", "3", "1", "9",
      "3", "7", "0", "4", "5", "7", "6", "7", "8", "2", "4", "9", "2", "1", "9", "3",
      "6", "5", "6", "2", "3", "6", "6", "9", "8", "6", "3", "6", "5", "8", "4", "8",
      "0", "7", "5", "7", "0", "0", "1", "5", "8", "5", "7", "6", "9", "2", "6", "9",
      "9", "0", "3", "7", "0", "6", "3", "1", "1", "9", "2", "8", "2", "7", "9", "5",
      "5", "8", "5", "5", "1", "3", "3", "2", "9", "2", "7", "8", "3", "4", "3", "3",
      "8", "4", "0", "9", "3", "5", "1", "9", "7", "8", "0", "1", "5", "5", "3", "1",
      "2", "4", "6", "5", "9", "7", "2", "6", "3", "5", "7", "9", "5", "7", "4", "6",
      "2", "2", "7", "6", "6", "4", "6", "5", "2", "7", "2", "8", "2", "7", "2", "2",
      "0", "0", "5", "6", "3", "7", "4", "0", "0", "6", "4", "8", "5", "4", "9", "9",
      "9", "7", "7", "0", "9", "6", "5", "9", "9", "4", "7", "0", "4", "5", "4", "0",
      "2", "0", "8", "2", "8", "1", "6", "6", "2", "2", "6", "2", "3", "7", "8", "5",
      "7", "3", "9", "3", "4", "5", "0", "7", "3", "6", "3", "3", "9", "0", "0", "7",
      "9", "6", "7", "7", "6", "1", "9", "3", "0", "5", "7", "7", "5", "0", "6", "7",
      "4", "0", "1", "7", "6", "3", "2", "4", "6", "7", "3", "6", "0", "0", "9", "6",
      "8", "9", "5", "1", "3", "4", "0", "5", "3", "5", "5", "3", "7", "4", "5", "8",
      "5", "1", "6", "6", "6", "1", "1", "3", "4", "2", "2", "3", "7", "6", "6", "6",
      "7", "8", "6", "0", "4", "1", "6", "2", "1", "5", "9", "6", "8", "0", "4", "6",
      "1", "9", "1", "4", "4", "6", "7", "2", "9", "1", "8", "4", "0", "3", "0", "0",
      "5", "3", "0", "0", "5", "7", "5", "3", "0", "8", "4", "9", "0", "4", "8", "7",
      "6", "5", "3", "9", "1", "7", "1", "1", "3", "8", "6", "5", "9", "1", "6", "4",
      "6", "2", "3", "9", "5", "2", "4", "9", "1", "2", "6", "2", "3", "6", "5", "3",
      "8", "8", "1", "8", "7", "9", "6", "3", "6", "2", "3", "9", "3", "7", "3", "2",
      "8", "0", "4", "2", "3", "8", "9", "1", "0", "1", "8", "6", "7", "2", "3", "4",
      "8", "4", "9", "7", "6", "6", "8", "2", "3", "5", "0", "8", "9", "8", "6", "3",
      "3", "8", "8", "5", "8", "7", "9", "2", "5", "6", "2", "8", "3", "0", "2", "7",
      "5", "5", "9", "9", "5", "6", "5", "7", "5", "2", "4", "4", "5", "5", "5", "0",
      "7", "2", "5", "5", "1", "8", "9", "3", "1", "3", "6", "9", "0", "8", "3", "6",
      "2", "5", "4", "7", "7", "9", "1", "8", "6", "9", "4", "8", "6", "6", "7", "9",
      "9", "4", "9", "6", "8", "3", "2", "4", "0", "4", "9", "7", "0", "5", "8", "2",
      "1", "0", "2", "8", "5", "1", "3", "1", "8", "5", "4", "5", "1", "3", "9", "6",
      "2", "1", "3", "8", "3", "7", "7", "2", "2", "8", "2", "6", "1", "4", "5", "4",
      "3", "7", "6", "9", "3", "4", "1", "2", "5", "3", "2", "0", "9", "8", "5", "9",
      "1", "3", "2", "7", "6", "6", "7", "2", "3", "6", "3", "2", "8", "1", "2", "5">>

\* the digits of 24 + 2^-49, halfway between 24.0 and the next double: up to
\* here a literal above 24 rounds to 24.0
Round24Digits ==
    <<"2", "4", "0", "0", "0", "0", "0", "0", "0", "0", "0", "0", "0", "0", "0", "0",
      "1", "7", "7", "6", "3", "5", "6", "8", "3", "9", "4", "0", "0", "2", "5", "0",
      "4", "6", "4", "6", "7", "7", "8", "1", "0", "6", "6", "8", "9", "4", "5", "3",
      "1", "2", "5">>

\* the decimal literal  [int] ["." [frac]] [("e"|"E") [sign] digits]
ParseDecimal(body, neg) ==
    LET ePos == FirstIn(body, {"e", "E"})
        mant == IF ePos = 0 THEN body ELSE Sub(body, 1, ePos - 1)
        expo == IF ePos = 0 THEN <<>> ELSE Sub(body, ePos + 1, Len(body))
        dot == FirstIn(mant, {"."})
        int == IF dot = 0 THEN mant ELSE Sub(mant, 1, dot - 1)
        frac == IF dot = 0 THEN <<>> ELSE Sub(mant, dot + 1, Len(mant))
        mantOk == IF dot = 0 THEN DigitPart(int)
                  ELSE /\ int = <<>> \/ DigitPart(int)
                       /\ frac = <<>> \/ DigitPart(frac)
                       /\ int # <<>> \/ frac # <<>>
        expOk == ePos = 0 \/ DigitPart(Unsigned(expo))
        digits == StripZeros(OnlyDigits(int) \o OnlyDigits(frac))
        sig == RStripZeros(digits)
        expSig == StripZeros(OnlyDigits(Unsigned(expo)))
        \* an exponent of more than six digits is beyond every double
        expAbs == IF Len(expSig) > 6 THEN 999999 ELSE DigitsValue(expSig)
        expVal == IF HasSign(expo) /\ expo[1] = "-" THEN 0 - expAbs ELSE expAbs
        \* the value is d.ddd * 10^lead
        lead == expVal - Len(OnlyDigits(frac)) + Len(digits) - 1
        zero == [kind |-> "fin", neg |-> neg, sig |-> <<>>, lead |-> 0]
    IN  IF ~(mantOk /\ expOk) THEN NoFloat
        ELSE IF sig = <<>> THEN zero
        ELSE IF lead > 308 \/ (lead = 308 /\ ~DigitsGreater(OverflowDigits, sig))
             THEN [kind |-> "inf", neg |-> neg, sig |-> <<>>, lead |-> 0]
        ELSE IF lead < 0 - 324 \/ (lead = 0 - 324 /\ ~DigitsGreater(sig, UnderflowDigits))
             THEN zero
        ELSE [kind |-> "fin", neg |-> neg, sig |-> sig, lead |-> lead]

\* float(s): surrounding whitespace and a sign are allowed; ValueError is NoFloat
ParseFloat(s) ==
    LET t == StripFloat(s)
        neg == HasSign(t) /\ t[1] = "-"
        body == Unsigned(t)
    IN  IF Lower(body) \in {Inf, Infinity}
        THEN [kind |-> "inf", neg |-> neg, sig |-> <<>>, lead |-> 0]
        ELSE IF Lower(body) = Nan THEN [kind |-> "nan", neg |-> neg, sig |-> <<>>, lead |-> 0]
        ELSE ParseDecimal(body, neg)

\* v == 0 (IEEE: -0.0 == 0, nan == 0 is false)
FloatIsZero(v) == v.kind = "fin" /\ v.sig = <<>>

\* v <= 0
FloatLeZero(v) ==
    \/ v.kind = "fin" /\ (v.sig = <<>> \/ v.neg)
    \/ v.kind = "inf" /\ v.neg

\* v > 24
FloatGt24(v) ==
    \/ v.kind = "inf" /\ ~v.neg
    \/ /\ v.kind = "fin" /\ ~v.neg /\ v.sig # <<>>
       /\ v.lead >= 2 \/ (v.lead = 1 /\ DigitsGreater(v.sig, Round24Digits))

\* validate_hours: the float, or ValueError
validate_hours(hours_str) ==
    LET hours == ParseFloat(hours_str)
    IN  IF hours.kind = "err" THEN [ok |-> FALSE, value |-> NoFloat]
        ELSE IF FloatLeZero(hours) THEN [ok |-> FALSE, value |-> NoFloat]
        ELSE IF FloatGt24(hours) THEN [ok |-> FALSE, value |-> NoFloat]
        ELSE [ok |-> TRUE, value |-> hours]

(***************************************************************************)
(* datetime.strptime(s, '%Y-%m-%d') and the submission timestamp           *)
(***************************************************************************)
NoDate == [ok |-> FALSE, y |-> 0, mo |-> 0, d |-> 0]

\* the length matched by (?P<m>1[0-2]|0[1-9]|[1-9]) at position p, 0 for no match
MonthLen(s, p) ==
    IF p + 1 <= Len(s) /\ s[p] = "1" /\ s[p + 1] \in {"0", "1", "2"} THEN 2
    ELSE IF p + 1 <= Len(s) /\ s[p] = "0" /\ IsDigit(s[p + 1]) /\ s[p + 1] # "0" THEN 2
    ELSE IF p <= Len(s) /\ IsDigit(s[p]) /\ s[p] # "0" THEN 1
    ELSE 0

\* the length matched by (?P<d>3[0-1]|[1-2]\d|0[1-9]|[1-9]| [1-9]) at p
DayLen(s, p) ==
    IF p + 1 <= Len(s) /\ s[p] = "3" /\ s[p + 1] \in {"0", "1"} THEN 2
    ELSE IF p + 1 <= Len(s) /\ s[p] \in {"1", "2"} /\ IsDigit(s[p + 1]) THEN 2
    ELSE IF p + 1 <= Len(s) /\ s[p] = "0" /\ IsDigit(s[p + 1]) /\ s[p + 1] # "0" THEN 2
    ELSE IF p <= Len(s) /\ IsDigit(s[p]) /\ s[p] # "0" THEN 1
    ELSE IF p + 1 <= Len(s) /\ s[p] = " " /\ IsDigit(s[p + 1]) /\ s[p + 1] # "0" THEN 2
    ELSE 0

IsLeap(y) == y % 4 = 0 /\ (y % 100 # 0 \/ y % 400 = 0)

DaysInMonth(y, mo) ==
    IF mo = 2 THEN (IF IsLeap(y) THEN 29 ELSE 28)
    ELSE IF mo \in {4, 6, 9, 11} THEN 30 ELSE 31

\* the regular expression is tried with alternatives in order: a month
\* alternative is kept only if "-" follows it; the day is the last group, so
\* its first matching alternative stands and the whole string must be used.
\* The parsed date is then built by datetime (year >= 1, day within month).
ParseDate(s) ==
    IF ~(Len(s) >= 5 /\ AllDigits(s, 1, 4) /\ s[5] = "-") THEN NoDate
    ELSE
      LET ml0 == MonthLen(s, 6)
          \* backtracking: a two-character month not followed by "-" falls
          \* back to the one-character alternative
          ml == IF ml0 = 2 /\ ~(Len(s) >= 8 /\ s[8] = "-")
                THEN (IF IsDigit(s[6]) /\ s[6] # "0" THEN 1 ELSE 0)
                ELSE ml0
      IN  IF ml = 0 \/ ~(Len(s) >= 6 + ml /\ s[6 + ml] = "-") THEN NoDate
          ELSE
            LET p == 7 + ml
                dl == DayLen(s, p)
                y == DigitsValue(Sub(s, 1, 4))
                mo == DigitsValue(Sub(s, 6, 5 + ml))
                d == DigitsValue(OnlyDigits(Sub(s, p, p + dl - 1)))
            IN  IF dl = 0 \/ p + dl - 1 # Len(s) THEN NoDate
                ELSE IF y < 1 \/ d > DaysInMonth(y, mo) THEN NoDate
                ELSE [ok |-> TRUE, y |-> y, mo |-> mo, d |-> d]

\* the decimal digits of n, zero-padded to width w (format {:0wd})
RECURSIVE Pad(_, _)
Pad(n, w) == IF w = 0 THEN <<>> ELSE Pad(n \div 10, w - 1) \o <<Digits[(n % 10) + 1]>>

NineAmUtc == <<"T", "0", "9", ":", "0", "0", ":", "0", "0", ".", "0", "0", "0", "+",
               "0", "0", "0", "0">>

\* start_datetime.isoformat().replace('+00:00', '.000+0000')
Started(dt) == Pad(dt.y, 4) \o <<"-">> \o Pad(dt.mo, 2) \o <<"-">> \o Pad(dt.d, 2) \o NineAmUtc

(***************************************************************************)
(* State                                                                   *)
(***************************************************************************)
VARIABLES
    csv,                 \* the rows csv.DictReader yields, in file order
    dry_run,             \* args.dry_run
    limit,               \* args.limit (NoLimit when --limit is absent)
    config,              \* what load_config returned
    pc,                  \* where the program is
    idx,                 \* the row the for loop reads next (1-based)
    total_entries,
    successful_entries,
    failed_entries,
    call,                \* the arguments of the log_worklog call in progress
    ret,                 \* what log_worklog returned ("none" before it returns)
    response,            \* how the last requests.post ended
    posts,               \* every requests.post issued, in order
    handed,              \* the rows main passed to log_worklog, in order
    results,             \* [row, ok] for every log_worklog call main tallied
    skipped,             \* the rows main skipped with continue
    summary,             \* the printed summary, NoSummary before it
    exit_code,           \* -1 while running, 1 after sys.exit(1), 0 at the end
    env,                 \* the .env file beside the script: whether it exists, its variables
    csv_file,            \* what is at the CSV path: a member of CsvFiles
    domain,              \* the argument of validate_domain
    domain_result        \* its result, NoResult before the call

vars == <<csv, dry_run, limit, config, pc, idx, total_entries, successful_entries,
          failed_entries, call, ret, response, posts, handed, results, skipped,
          summary, exit_code, domain, domain_result, env, csv_file>>

\* args.limit: None, or the integer given
NoLimit == [given |-> FALSE, n |-> 0]
LimitOf(n) == [given |-> TRUE, n |-> n]
NoSummary == [printed |-> FALSE, total |-> 0, successful |-> 0, failed |-> 0]
NoCall == [row |-> 0, ticket |-> <<>>, hours |-> <<>>, date_str |-> <<>>, comment |-> <<>>]
NoResponse == [kind |-> "none", status |-> 0]
NoResult == [ok |-> FALSE, value |-> <<"?">>]
NoConfig == [email |-> <<>>, token |-> <<>>, domain |-> <<>>, cloud_id |-> <<>>]

\* None, which is not a str: the value csv.DictReader gives a column that a
\* short data row does not reach
NoneValue == <<"None">>

(***************************************************************************)
(* load_config                                                             *)
(***************************************************************************)
\* the configuration, or sys.exit(1): no .env file, a required variable
\* missing or blank, an invalid e-mail address, an invalid domain
load_config(e) ==
    LET c == [email |-> Strip(e.JIRA_EMAIL), token |-> Strip(e.JIRA_API_TOKEN),
              domain |-> Strip(e.JIRA_DOMAIN), cloud_id |-> Strip(e.JIRA_CLOUD_ID)]
        d == validate_domain(c.domain)
    IN  IF ~e.exists THEN [ok |-> FALSE, config |-> NoConfig]
        ELSE IF c.email = <<>> \/ c.token = <<>> \/ c.domain = <<>>
        THEN [ok |-> FALSE, config |-> NoConfig]
        ELSE IF ~validate_email(c.email) THEN [ok |-> FALSE, config |-> NoConfig]
        ELSE IF ~d.ok THEN [ok |-> FALSE, config |-> NoConfig]
        ELSE [ok |-> TRUE, config |-> [c EXCEPT !.domain = d.value]]

(***************************************************************************)
(* log_worklog                                                             *)
(***************************************************************************)
WorkOn == <<"W", "o", "r", "k", " ", "o", "n", " ">>

UrlHead == <<"h", "t", "t", "p", "s", ":", "/", "/">>
UrlPath == <<"/", "r", "e", "s", "t", "/", "a", "p", "i", "/", "3", "/",
             "i", "s", "s", "u", "e", "/">>
UrlTail == <<"/", "w", "o", "r", "k", "l", "o", "g">>

\* f"https://{config['domain']}/rest/api/3/issue/{ticket}/worklog"
WorklogUrl(dom, ticket) == UrlHead \o dom \o UrlPath \o ticket \o UrlTail

\* ticket = ticket.strip().upper()
NormalTicket(ticket) == Upper(Strip(ticket))

\* log_worklog without its date check
LogWorklogCheck_NoDate(ticket, hours, date_str) ==
    IF ~validate_ticket_format(Upper(Strip(ticket))) THEN "ticket"
    ELSE IF ~validate_hours(hours).ok THEN "hours"
    ELSE "ok"

\* the three validations of log_worklog, in order: "ok", or the one that
\* printed its error and returned False
LogWorklogCheck(ticket, hours, date_str) ==
    IF ~validate_ticket_format(NormalTicket(ticket)) THEN "ticket"
    ELSE IF ~validate_hours(hours).ok THEN "hours"
    ELSE IF ~ParseDate(Strip(date_str)).ok THEN "date"
    ELSE "ok"

\* the request requests.post sends: the URL and the two payload fields the
\* arguments decide beside timeSpent
WorklogRequest(cfg, c) ==
    [row |-> c.row,
     url |-> WorklogUrl(cfg.domain, NormalTicket(c.ticket)),
     text |-> c.comment,
     started |-> Started(ParseDate(Strip(c.date_str)))]

\* any 2xx status taken for success
IsCreated_Any2xx(status) == status \in 200..299

\* response.status_code == 201
IsCreated(status) == status = 201

\* except requests.exceptions.RequestException: Timeout and ConnectionError
\* (DNS failure, connection refused) are subclasses
IsRequestException(kind) == kind \in {"Timeout", "ConnectionError"}

Statuses == {200, 201, 400, 401, 404, 500}

Outcomes ==
    [kind : {"status"}, status : Statuses]
        \cup [kind : {"Timeout", "ConnectionError"}, status : {0}]

\* lines 116-148: validation, the dry-run return, or the POST is sent
LogWorklogEnter ==
    /\ pc = "log_worklog"
    /\ LET check == LogWorklogCheck(call.ticket, call.hours, call.date_str)
       IN  IF check # "ok"
           THEN /\ ret' = "False" /\ pc' = "returned" /\ posts' = posts
           ELSE IF dry_run
           THEN /\ ret' = "True" /\ pc' = "returned" /\ posts' = posts
           ELSE /\ posts' = Append(posts, WorklogRequest(config, call))
                /\ pc' = "post" /\ ret' = ret
    /\ UNCHANGED <<csv, dry_run, limit, config, idx, total_entries, successful_entries,
                   failed_entries, call, response, handed, results, skipped, summary,
                   exit_code, domain, domain_result, env, csv_file>>

\* lines 174-193: requests.post returns a response or raises
LogWorklogRespond ==
    /\ pc = "post"
    /\ \E o \in Outcomes :
        /\ response' = o
        /\ ret' = IF o.kind = "status"
                  THEN (IF IsCreated(o.status) THEN "True" ELSE "False")
                  ELSE IF IsRequestException(o.kind) THEN "False" ELSE "raise"
    /\ pc' = "returned"
    /\ UNCHANGED <<csv, dry_run, limit, config, idx, total_entries, successful_entries,
                   failed_entries, call, posts, handed, results, skipped, summary,
                   exit_code, domain, domain_result, env, csv_file>>

(***************************************************************************)
(* Inputs                                                                  *)
(***************************************************************************)
MaxRows == 2
MaxLimit == 2
MaxFragments == 3

SeqsUpTo(S, n) == UNION {[1..k -> S] : k \in 0..n}

\* a loaded configuration: the domain is already normalized by load_config
SampleConfig ==
    [email |-> <<"u", "@", "x", ".", "i", "o">>, token |-> <<"t", "o", "k">>,
     domain |-> <<"x", ".", "i", "o">>, cloud_id |-> <<>>]

\* a .env file that load_config accepts and normalizes to SampleConfig
GoodEnv ==
    [exists |-> TRUE, JIRA_EMAIL |-> <<" ", "u", "@", "x", ".", "i", "o", " ">>,
     JIRA_API_TOKEN |-> <<"t", "o", "k">>,
     JIRA_DOMAIN |-> <<"h", "t", "t", "p", "s", ":", "/", "/", "x", ".", "i", "o", "/">>, JIRA_CLOUD_ID |-> <<>>]

\* the accepted file, no file, a missing token, an invalid e-mail address,
\* an invalid domain
SampleEnvs ==
    {GoodEnv,
     [GoodEnv EXCEPT !.exists = FALSE],
     [GoodEnv EXCEPT !.JIRA_API_TOKEN = <<" ">>],
     [GoodEnv EXCEPT !.JIRA_EMAIL = <<"u", ".", "x", ".", "i", "o">>],
     [GoodEnv EXCEPT !.JIRA_DOMAIN = <<"x", ".", "i">>]}

\* CSV rows: valid ones (upper- and lower-case ticket, empty description),
\* rows to skip (zero hours, blank date, blank hours), hours that are not a
\* number, bad hours and a bad date, and two rows of two fields (the lines
\* `2024-01-15,PROJ-1` and `,PROJ-1`)
SampleRows ==
   {
    [Date |-> <<"2", "0", "2", "4", "-", "0", "1", "-", "1", "5">>, Ticket |-> <<"P", "R", "O", "J", "-", "1", "2", "3">>,
     Description |-> <<"F", "i", "x">>, Hours |-> <<"4">>],
    [Date |-> <<"2", "0", "2", "4", "-", "0", "1", "-", "1", "5">>, Ticket |-> <<"p", "r", "o", "j", "-", "1">>,
     Description |-> <<>>, Hours |-> <<"0", ".", "5">>],
    [Date |-> <<"2", "0", "2", "4", "-", "0", "1", "-", "1", "5">>, Ticket |-> <<"P", "R", "O", "J", "-", "1">>,
     Description |-> <<"x">>, Hours |-> <<"0", ".", "0", "0", "0", "0", "0", "0", "0", "0", "0">>],
    [Date |-> <<>>, Ticket |-> <<"P", "R", "O", "J", "-", "1">>,
     Description |-> <<"x">>, Hours |-> <<"4">>],
    [Date |-> <<"2", "0", "2", "4", "-", "0", "1", "-", "1", "5">>, Ticket |-> <<"P", "R", "O", "J", "-", "1">>,
     Description |-> <<"x">>, Hours |-> <<"a", "b", "c">>],
    [Date |-> <<"2", "0", "2", "4", "-", "1", "-", "5">>, Ticket |-> <<"A", "B", "-", "2">>,
     Description |-> <<" ">>, Hours |-> <<"2", "5">>],
    [Date |-> <<"2", "0", "2", "4", "-", "0", "2", "-", "3", "0">>, Ticket |-> <<" ", "A", "B", "-", "2", " ">>,
     Description |-> <<"x">>, Hours |-> <<" ", "8", " ">>],
    [Date |-> <<"2", "0", "2", "4", "-", "0", "1", "-", "1", "5">>, Ticket |-> <<"A", "B", "-", "2">>,
     Description |-> <<"x">>, Hours |-> <<" ", VT>>],
    [Date |-> <<"2", "0", "2", "4", "-", "0", "1", "-", "1", "5">>, Ticket |-> <<"P", "R", "O", "J", "-", "1">>,
     Description |-> NoneValue, Hours |-> NoneValue],
    [Date |-> <<>>, Ticket |-> <<"P", "R", "O", "J", "-", "1">>,
     Description |-> NoneValue, Hours |-> NoneValue]
   }

(***************************************************************************)
(* main                                                                    *)
(***************************************************************************)
\* lines 210-213: the configuration is loaded, or the run ends in sys.exit(1)
MainLoadConfig ==
    /\ pc = "load_config"
    /\ LET r == load_config(env)
       IN  IF r.ok
           THEN /\ config' = r.config /\ pc' = "open_csv" /\ exit_code' = exit_code
           ELSE /\ config' = config /\ pc' = "exit" /\ exit_code' = 1
    /\ UNCHANGED <<csv, dry_run, limit, idx, total_entries, successful_entries,
                   failed_entries, call, ret, response, posts, handed, results,
                   skipped, summary, domain, domain_result, env, csv_file>>

\* row.get(key, ''): '' for a column the header does not have
RowGet(row, key) == IF key \in DOMAIN row THEN row[key] ELSE <<>>

\* one of the four columns is None: .strip() raises AttributeError
HasNone(row) ==
    NoneValue \in {RowGet(row, key) : key \in {"Date", "Ticket", "Description", "Hours"}}

\* row.get(...).strip() for the four columns
RowFields(row) ==
    [date |-> Strip(RowGet(row, "Date")), ticket |-> Strip(RowGet(row, "Ticket")),
     work_description |-> Strip(RowGet(row, "Description")),
     hours |-> Strip(RowGet(row, "Hours"))]

\* not all([date, ticket, hours])
AnyBlank(f) == f.date = <<>> \/ f.ticket = <<>> \/ f.hours = <<>>

\* if args.limit and total_entries > args.limit
LimitReached(lim, total) == lim.given /\ lim.n # 0 /\ total > lim.n

\* what the loop body does with a row before log_worklog is called:
\* "skip" (continue), "raise" (None.strip() raises AttributeError, or
\* float(hours) raises ValueError), "break" (the limit), or "call"
RowDecision(row, lim, total) ==
    LET f == RowFields(row)
    IN  IF HasNone(row) THEN "raise"
        ELSE IF AnyBlank(f) THEN "skip"
        ELSE IF ParseFloat(f.hours).kind = "err" THEN "raise"
        ELSE IF FloatIsZero(ParseFloat(f.hours)) THEN "skip"
        ELSE IF LimitReached(lim, total + 1) THEN "break"
        ELSE "call"

\* comment = work_description if work_description else f"Work on {ticket}"
RowComment(f) ==
    IF f.work_description # <<>> THEN f.work_description ELSE WorkOn \o f.ticket

\* a loop that stays on a row whose submission failed
NextRow_Retry(i) == IF ret = "False" THEN i ELSE i + 1

\* the for loop moves to the next row
NextRow(i) == i + 1

\* what the CSV path names: nothing; something that exists but that open()
\* fails on (a directory, a file without read permission); a regular text
\* file; or a file that opens and yields rows until a read of it raises
\* (bytes that do not decode, a field over the csv field size limit)
CsvFiles == {"missing", "unreadable", "regular", "corrupt"}

\* lines 216-232: the CSV file is missing (sys.exit(1) at line 221), or it
\* exists and open() raises (except Exception, sys.exit(1) at line 284), or
\* it is opened.  csv.DictReader reads lazily, one row for each turn of the
\* loop: csv holds the rows it will yield, and for a corrupt file the read
\* after them raises (MainReadError).
MainOpenCsv ==
    /\ pc = "open_csv"
    /\ IF csv_file = "missing"
       THEN /\ csv' = csv /\ pc' = "exit" /\ exit_code' = 1
       ELSE IF csv_file = "unreadable"
       THEN /\ csv' = csv /\ pc' = "exit" /\ exit_code' = 1
       ELSE /\ \E rows \in SeqsUpTo(SampleRows, MaxRows) : csv' = rows
            /\ pc' = "loop" /\ exit_code' = exit_code
    /\ UNCHANGED <<dry_run, limit, config, idx, total_entries, successful_entries,
                   failed_entries, call, ret, response, posts, handed, results,
                   skipped, summary, domain, domain_result, env, csv_file>>

\* lines 234-257: one row is read, up to the call of log_worklog
MainRow ==
    /\ pc = "loop" /\ idx <= Len(csv)
    /\ LET row == csv[idx]
           f == RowFields(row)
           d == RowDecision(row, limit, total_entries)
       IN  /\ skipped' = IF d = "skip" THEN skipped \cup {idx} ELSE skipped
           /\ idx' = IF d = "skip" THEN NextRow(idx) ELSE idx
           /\ total_entries' = IF d \in {"break", "call"}
                               THEN total_entries + 1 ELSE total_entries
           \* except Exception: print the error, sys.exit(1)
           /\ pc' = CASE d = "skip" -> "loop"
                      [] d = "raise" -> "exit"
                      [] d = "break" -> "summary"
                      [] d = "call" -> "log_worklog"
           /\ exit_code' = IF d = "raise" THEN 1 ELSE exit_code
           /\ call' = IF d = "call"
                      THEN [row |-> idx, ticket |-> f.ticket, hours |-> f.hours,
                            date_str |-> f.date, comment |-> RowComment(f)]
                      ELSE call
           /\ handed' = IF d = "call" THEN Append(handed, idx) ELSE handed
           /\ ret' = IF d = "call" THEN "none" ELSE ret
    /\ UNCHANGED <<csv, dry_run, limit, config, successful_entries, failed_entries,
                   response, posts, results, summary, domain, domain_result, env, csv_file>>

\* lines 257-266: the result is tallied (and time.sleep(0.5) when not dry-run)
MainTally ==
    /\ pc = "returned" /\ call.row > 0
    /\ IF ret = "raise"
       THEN /\ pc' = "exit" /\ exit_code' = 1
            /\ UNCHANGED <<idx, successful_entries, failed_entries, results>>
       ELSE /\ successful_entries' =
                   IF ret = "True" THEN successful_entries + 1 ELSE successful_entries
            /\ failed_entries' =
                   IF ret = "True" THEN failed_entries ELSE failed_entries + 1
            /\ results' = Append(results, [row |-> call.row, ok |-> ret = "True"])
            /\ idx' = NextRow(idx)
            /\ pc' = "loop"
            /\ exit_code' = exit_code
    /\ UNCHANGED <<csv, dry_run, limit, config, total_entries, call, ret, response,
                   posts, handed, skipped, summary, domain, domain_result, env, csv_file>>

\* line 234, lines 282-284: the for statement asks the reader for the next
\* row and the read raises (UnicodeDecodeError, csv.Error); the rows before
\* it have been handled; except Exception prints the error, sys.exit(1)
MainReadError ==
    /\ pc = "loop" /\ idx > Len(csv) /\ csv_file = "corrupt"
    /\ pc' = "exit"
    /\ exit_code' = 1
    /\ UNCHANGED <<csv, dry_run, limit, config, idx, total_entries, successful_entries,
                   failed_entries, call, ret, response, posts, handed, results,
                   skipped, summary, domain, domain_result, env, csv_file>>

\* lines 268-277: after the last row (the reader is exhausted), or after break
MainSummary ==
    /\ pc = "summary" \/ (pc = "loop" /\ idx > Len(csv) /\ csv_file # "corrupt")
    /\ summary' = [printed |-> TRUE, total |-> total_entries,
                   successful |-> successful_entries, failed |-> failed_entries]
    /\ pc' = "done"
    /\ exit_code' = 0
    /\ UNCHANGED <<csv, dry_run, limit, config, idx, total_entries, successful_entries,
                   failed_entries, call, ret, response, posts, handed, results,
                   skipped, domain, domain_result, env, csv_file>>

(***************************************************************************)
(* validate_domain, applied to one argument                                *)
(***************************************************************************)
ValidateDomain ==
    /\ pc = "validate_domain"
    /\ domain_result' = validate_domain(domain)
    /\ pc' = "validated"
    /\ UNCHANGED <<csv, dry_run, limit, config, idx, total_entries, successful_entries,
                   failed_entries, call, ret, response, posts, handed, results,
                   skipped, summary, exit_code, domain, env, csv_file>>

(***************************************************************************)
(* Specifications                                                          *)
(***************************************************************************)
Limits == {NoLimit} \cup {LimitOf(n) : n \in 0..MaxLimit}

Init ==
    /\ env \in SampleEnvs
    /\ csv_file \in CsvFiles
    /\ csv = <<>>
    /\ dry_run \in BOOLEAN
    /\ limit \in Limits
    /\ config = NoConfig
    /\ pc = "load_config"
    /\ idx = 1
    /\ total_entries = 0 /\ successful_entries = 0 /\ failed_entries = 0
    /\ call = NoCall
    /\ ret = "none"
    /\ response = NoResponse
    /\ posts = <<>> /\ handed = <<>> /\ results = <<>> /\ skipped = {}
    /\ summary = NoSummary
    /\ exit_code = 0 - 1
    /\ domain = <<>> /\ domain_result = NoResult

Next ==
    \/ MainLoadConfig \/ MainOpenCsv \/ MainRow
    \/ LogWorklogEnter \/ LogWorklogRespond \/ MainTally
    \/ MainReadError \/ MainSummary

\* a run of main, from load_config to the summary or sys.exit(1)
Spec == Init /\ [][Next]_vars

SampleTickets ==
    {<<"P", "R", "O", "J", "-", "1", "2", "3">>,
     <<"p", "r", "o", "j", "-", "1">>,
     <<VT, "A", "B", "-", "2">>,
     <<"1", "2", "3", "-", "X">>,
     <<"P", "R", "O", "J", "-">>,
     <<>>}

SampleHours ==
    {<<"4">>,
     <<" ", "0", ".", "5", " ">>,
     <<"2", "4">>,
     <<"2", "5">>,
     <<"0">>,
     <<"-", "1">>,
     <<"a", "b", "c">>,
     <<"n", "a", "n">>,
     <<"8", ".", "0", "0", "0", "0", "0", "0", "0", "0", "0", "0", "0", "0">>,
     <<"4", FS>>,
     <<>>}

SampleDates ==
    {<<"2", "0", "2", "4", "-", "0", "1", "-", "1", "5">>,
     <<" ", "2", "0", "2", "4", "-", "0", "2", "-", "2", "9", US>>,
     <<"2", "0", "2", "4", "-", "1", "-", "5">>,
     <<"2", "0", "2", "4", "-", "0", "2", "-", "3", "0">>,
     <<"1", "5", "/", "0", "1", "/", "2", "0", "2", "4">>,
     <<>>}

SampleComments ==
    {<<>>,
     <<"F", "i", "x">>}

InitWorklog ==
    /\ csv = <<>>
    /\ dry_run \in BOOLEAN
    /\ limit = NoLimit
    /\ env = GoodEnv /\ csv_file = "regular"
    /\ config = SampleConfig
    /\ pc = "log_worklog"
    /\ idx = 1
    /\ total_entries = 0 /\ successful_entries = 0 /\ failed_entries = 0
    /\ call \in [row : {0}, ticket : SampleTickets, hours : SampleHours,
                  date_str : SampleDates, comment : SampleComments]
    /\ ret = "none"
    /\ response = NoResponse
    /\ posts = <<>> /\ handed = <<>> /\ results = <<>> /\ skipped = {}
    /\ summary = NoSummary
    /\ exit_code = 0 - 1
    /\ domain = <<>> /\ domain_result = NoResult

NextWorklog == LogWorklogEnter \/ LogWorklogRespond

\* log_worklog called on its own
SpecWorklog == InitWorklog /\ [][NextWorklog]_vars

Fragments ==
    {<<"h", "t", "t", "p", "s", ":", "/", "/">>,
     <<"h", "t", "t", "p", ":", "/", "/">>,
     <<"a", ".", "c", "o">>,
     <<"a">>,
     <<".">>,
     <<"c", "o">>,
     <<"/">>,
     <<"-">>}

RECURSIVE Concat(_)
Concat(ss) == IF ss = <<>> THEN <<>> ELSE Head(ss) \o Concat(Tail(ss))

SampleDomains == {Concat(ss) : ss \in SeqsUpTo(Fragments, MaxFragments)}

InitDomain ==
    /\ csv = <<>>
    /\ dry_run = FALSE
    /\ limit = NoLimit
    /\ env = GoodEnv /\ csv_file = "regular"
    /\ config = SampleConfig
    /\ pc = "validate_domain"
    /\ idx = 1
    /\ total_entries = 0 /\ successful_entries = 0 /\ failed_entries = 0
    /\ call = NoCall
    /\ ret = "none"
    /\ response = NoResponse
    /\ posts = <<>> /\ handed = <<>> /\ results = <<>> /\ skipped = {}
    /\ summary = NoSummary
    /\ exit_code = 0 - 1
    /\ domain \in SampleDomains
    /\ domain_result = NoResult

NextDomain == ValidateDomain

\* validate_domain applied to one string
SpecDomain == InitDomain /\ [][NextDomain]_vars

(***************************************************************************)
(* Properties                                                              *)
(***************************************************************************)
Min(a, b) == IF a < b THEN a ELSE b

\* a row's trimmed Date, Jira Ticket Number or Hours is blank, or its Hours
\* parses to exactly zero
SkipCondition(row) ==
    \/ Strip(row.Date) = <<>>
    \/ Strip(row.Ticket) = <<>>
    \/ Strip(row.Hours) = <<>>
    \/ FloatIsZero(ParseFloat(Strip(row.Hours)))

\* the rows of the file that are not to be skipped, in file order
NonSkippedRows ==
    LET Keep(i) == ~SkipCondition(csv[i])
    IN  SelectSeq([i \in 1..Len(csv) |-> i], Keep)

\* a row whose ticket, hours and date log_worklog accepts
RowValid(row) == LogWorklogCheck(row.Ticket, row.Hours, row.Date) = "ok"

\* hours that are unparsable, <= 0 or > 24
HoursBad(h) ==
    LET v == ParseFloat(h)
    IN  v.kind = "err" \/ FloatLeZero(v) \/ FloatGt24(v)

\* exactly YYYY-MM-DD, naming a calendar date
StrictDate(s) ==
    /\ Len(s) = 10
    /\ AllDigits(s, 1, 4) /\ AllDigits(s, 6, 7) /\ AllDigits(s, 9, 10)
    /\ s[5] = "-" /\ s[8] = "-"
    /\ LET y == DigitsValue(Sub(s, 1, 4))
           mo == DigitsValue(Sub(s, 6, 7))
           d == DigitsValue(Sub(s, 9, 10))
       IN  y >= 1 /\ mo \in 1..12 /\ d >= 1 /\ d <= DaysInMonth(y, mo)

\* the reference normalizer: one leading scheme and the trailing slashes are
\* removed, and the whole of what is left must be labels.tld
ReferenceDomain(s) ==
    LET s1 == IF StartsWith(s, Https) THEN Sub(s, Len(Https) + 1, Len(s))
              ELSE IF StartsWith(s, Http) THEN Sub(s, Len(Http) + 1, Len(s))
              ELSE s
        s2 == RStripSlash(s1)
        matches == \E k \in 2..(Len(s2) - 2) :
                      /\ \A j \in 1..(k - 1) : IsDomainChar(s2[j])
                      /\ s2[k] = "."
                      /\ AllAlpha(s2, k + 1, Len(s2))
    IN  IF matches THEN [ok |-> TRUE, value |-> s2] ELSE [ok |-> FALSE, value |-> <<>>]

PostedRows == {posts[k].row : k \in 1..Len(posts)}
HandedRows == {handed[k] : k \in 1..Len(handed)}
TalliedRows == {results[k].row : k \in 1..Len(results)}

\* C1: once the configuration and the CSV file are loaded, the run never
\* aborts: whatever the rows hold, it does not end in sys.exit(1).
C1_NeverAborts ==
    (load_config(env).ok /\ csv_file = "regular") => (pc # "exit" /\ exit_code # 1)

\* C2: with a limit N >= 0, the rows handed to log_worklog by a finished run
\* are exactly the first min(N, k) of the k non-skipped rows, in file order.
C2_LimitHandsFirstN ==
    (pc = "done" /\ limit.given /\ limit.n >= 0)
        => handed = Sub(NonSkippedRows, 1, Min(limit.n, Len(NonSkippedRows)))

\* C3: in dry-run mode no POST is ever issued, and (in a run without a limit)
\* once the run has ended every non-skipped row with a valid ticket, hours
\* and date has a success result.
C3_DryRunAllValidSucceed ==
    dry_run =>
        /\ posts = <<>>
        /\ (pc \in {"done", "exit"} /\ ~limit.given) =>
              \A i \in 1..Len(csv) :
                  (~SkipCondition(csv[i]) /\ RowValid(csv[i]))
                      => \E k \in 1..Len(results) : results[k] = [row |-> i, ok |-> TRUE]

\* C4 (as stated): log_worklog on its own, given a ticket that fails
\* validate_ticket_format, hours that are unparsable, <= 0 or > 24, or a date
\* that is not strictly YYYY-MM-DD, returns False and issues no POST.
C4_InvalidAsStated ==
    (/\ pc = "returned"
     /\ \/ ~validate_ticket_format(call.ticket)
        \/ HoursBad(call.hours)
        \/ ~StrictDate(call.date_str))
        => ret = "False" /\ posts = <<>>

\* C4 (amended): log_worklog on its own, given a ticket that fails
\* validate_ticket_format once trimmed, hours that are unparsable, <= 0 or
\* > 24, or a date that the %Y-%m-%d parser rejects once trimmed, never
\* issues a POST and returns False.
C4_InvalidReturnsFalse ==
    (\/ ~validate_ticket_format(Strip(call.ticket))
     \/ HoursBad(call.hours)
     \/ ~ParseDate(Strip(call.date_str)).ok)
        => /\ posts = <<>>
           /\ pc \in {"log_worklog", "returned"}
           /\ pc = "returned" => ret = "False"

\* a call that was not a dry run returned False for its date alone
C4_Witness ==
    /\ pc = "returned" /\ ~dry_run /\ ret = "False"
    /\ validate_ticket_format(Strip(call.ticket)) /\ ~HoursBad(call.hours)
    /\ ~ParseDate(Strip(call.date_str)).ok

\* C5: for a valid entry, not in dry-run, log_worklog issues one POST and
\* returns True exactly when the response status is 201; every other status
\* and every transport failure gives False, never a propagated exception.
C5_SuccessIffCreated ==
    (pc = "returned" /\ ~dry_run /\ RowValid([Ticket |-> call.ticket,
                                               Hours |-> call.hours,
                                               Date |-> call.date_str]))
        => /\ Len(posts) = 1
           /\ ret \in {"True", "False"}
           /\ ret = "True" <=> (response.kind = "status" /\ response.status = 201)

\* a valid entry was posted and the transport failed: False was returned
C5_Witness ==
    /\ pc = "returned" /\ ~dry_run /\ Len(posts) = 1
    /\ response.kind = "Timeout" /\ ret = "False"

\* The skip rule of C6, for one step: a row is skipped exactly when its
\* trimmed Date, Jira Ticket Number or Hours is blank or its Hours parses to
\* zero; skipping it changes no tally,
\* hands nothing to log_worklog, issues no POST and leaves the loop running
\* on the next row; a skipped row is never handed over or posted.
C6_SkipStep ==
    (pc = "loop" /\ idx <= Len(csv)) =>
        /\ (idx \in skipped') <=> SkipCondition(csv[idx])
        /\ (idx \in skipped') =>
              /\ total_entries' = total_entries
              /\ successful_entries' = successful_entries
              /\ failed_entries' = failed_entries
              /\ handed' = handed /\ posts' = posts /\ results' = results
              /\ pc' = "loop" /\ idx' = idx + 1
        /\ \A i \in skipped' : i \notin HandedRows' /\ i \notin PostedRows'

\* C6: every step of the run obeys the skip rule above.
C6_SkipIffBlankOrZero == [][C6_SkipStep]_vars

\* C7: whenever a row with an empty description is submitted, the comment in
\* the POST payload is "Work on <ticket>" with the upper-cased ticket, the one
\* in the request URL, and never the empty string.
C7_EmptyDescriptionComment ==
    \A k \in 1..Len(posts) :
        (posts[k].row > 0 /\ Strip(csv[posts[k].row].Description) = <<>>)
            => LET ticket == Upper(Strip(csv[posts[k].row].Ticket))
               IN  /\ posts[k].url = WorklogUrl(config.domain, ticket)
                   /\ posts[k].text = WorkOn \o ticket
                   /\ posts[k].text # <<>>

\* C8: validate_domain(s) equals the reference normalizer for every s.
C8_MatchesReference ==
    pc = "validated" => domain_result = ReferenceDomain(domain)

\* C9: in a run that is not a dry run, POSTs are issued in file order, at
\* most one per row and only for non-skipped rows; a POST starts only after
\* every earlier POST's row has returned and been tallied; a row is never
\* posted twice.
C9_PostsSequential ==
    ~dry_run =>
        /\ \A k \in 1..(Len(posts) - 1) : posts[k].row < posts[k + 1].row
        /\ \A k \in 1..Len(posts) : ~SkipCondition(csv[posts[k].row])
        /\ \A k \in 1..(Len(posts) - 1) : posts[k].row \in TalliedRows
        /\ pc = "post" => posts[Len(posts)].row = idx /\ idx \notin TalliedRows

\* a second POST was issued after the first row's POST had failed
C9_Witness ==
    /\ ~dry_run /\ Len(posts) = 2 /\ pc = "post"
    /\ \E k \in 1..Len(results) : results[k] = [row |-> posts[1].row, ok |-> FALSE]

\* C10: in a run that reaches the summary, the printed total equals
\* succeeded + failed and the number of rows handed to log_worklog.
C10_TallyConsistent ==
    pc = "done" =>
        /\ summary.total = summary.successful + summary.failed
        /\ summary.total = Len(handed)

====
